---- MODULE Spec2Model ----
(***************************************************************************)
(* A model of the KCSD2D estimation engine (src/KCSD2D.py).                *)
(*                                                                         *)
(* Numerical content that a model checker cannot reproduce (adaptive      *)
(* quadrature, cubic interpolation, LAPACK solves) is kept by provenance:  *)
(* a lookup table or a kernel matrix is represented by the parameters and  *)
(* the inputs it was computed from, which is what makes it "the one built  *)
(* for R".  Floating-point results that depend on the recorded data (the   *)
(* leave-one-out errors, whether an inversion is singular) are drawn from  *)
(* small sets that include the non-finite values.                          *)
(*                                                                         *)
(* Two specifications share the variables:                               *)
(*   Spec      the constructed engine and its public operations;           *)
(*   SpecNew   the constructor, step by step, over good and bad arguments. *)
(***************************************************************************)
EXTENDS Integers, Sequences, FiniteSets, TLC

VARIABLES
    self,   \* the KCSD2D object: its attributes
    pc,     \* where the caller is: in __init__, idle, or inside cross_validate
    cv,     \* the frame of the current (or last) cross_validate call
    ret,    \* how the last finished operation ended: what it returned or raised
    args    \* the arguments the constructor was called with

vars == <<self, pc, cv, ret, args>>

(***************************************************************************)
(* Bounds of the model.                                                    *)
(***************************************************************************)
MaxR == 2          \* candidate radii are 1..MaxR
MaxLambda == 2     \* candidate regularisation strengths are 1..MaxLambda
NObs == 2          \* number of electrodes (rows of ele_pos and of pots)
MaxCells == 4      \* largest Rs.size * lambdas.size grid that is swept
MaxT == 2          \* largest number of time columns of pots (SpecCv)

RVals == 1..MaxR
LambdaVals == 1..MaxLambda

(***************************************************************************)
(* Floating-point values: a finite non-negative number, +inf, or NaN.      *)
(***************************************************************************)
Fin(n) == [cls |-> "fin", v |-> n]
Inf == [cls |-> "inf", v |-> 0]
NaN == [cls |-> "nan", v |-> 0]

\* IEEE addition of non-negative values: NaN absorbs, then inf.
FAdd(a, b) ==
    IF a.cls = "nan" \/ b.cls = "nan" THEN NaN
    ELSE IF a.cls = "inf" \/ b.cls = "inf" THEN Inf
    ELSE Fin(a.v + b.v)

\* IEEE ==: false as soon as one side is NaN.
FEq(a, b) == a.cls # "nan" /\ b.cls # "nan" /\ a = b

\* IEEE <=: false as soon as one side is NaN.
FLeq(a, b) ==
    /\ a.cls # "nan" /\ b.cls # "nan"
    /\ \/ b.cls = "inf"
       \/ a.cls = "fin" /\ b.cls = "fin" /\ a.v <= b.v

\* IEEE <.
FLess(a, b) == FLeq(a, b) /\ a # b

(***************************************************************************)
(* The object before __init__ has assigned anything.  attrs is the set of  *)
(* attributes that exist; reading one that is not in attrs is an           *)
(* AttributeError.  The other fields hold the attribute's value once set.  *)
(***************************************************************************)
NoTable == [R |-> 0, dist_max |-> 0, basis |-> "none"]
NoBPot == [table |-> NoTable, dist_max |-> 0]
NoBSrc == [R |-> 0, basis |-> "none"]
NoSpace == [nx |-> 0, ny |-> 0, Lx |-> 0, Ly |-> 0]

NewObject ==
    [attrs |-> {},
     ele_pos |-> << >>, pots |-> [rows |-> 0, T |-> 0], n_obs |-> 0,
     space |-> NoSpace,
     R_init |-> 0, lambd |-> 0,
     basis |-> "none", src |-> [Lx |-> 0, Ly |-> 0],
     R |-> 0, dist_max |-> 0,
     dist_table |-> NoTable,
     b_pot |-> NoBPot, k_pot |-> [b_pot |-> NoBPot],
     b_src |-> NoBSrc,
     k_interp_cross |-> [b_src |-> NoBSrc, b_pot |-> NoBPot],
     k_interp_pot |-> [b_interp_pot |-> NoBPot, b_pot |-> NoBPot]]

Has(k, a) == a \in k.attrs

\* The result of a step of a method: the object, and the exception it raised.
Ok(k) == [k |-> k, exc |-> "none"]
Raise(k, e) == [k |-> k, exc |-> e]

(***************************************************************************)
(* Construction: validate, estimate_at, place_basis, method.               *)
(***************************************************************************)
\* params.get(prop, default)
Get(params, prop, default) ==
    IF prop \in DOMAIN params THEN params[prop] ELSE default

\* The defaults merged into the object by estimate_at.
KCSD2D_params == [R_init |-> 1, lambd |-> 0]

\* The basis types the class documents.
basis_types == {"gauss", "step", "gauss_lim"}

\* np.min / np.max of column c of ele_pos.
ColMin(ele_pos, c) ==
    CHOOSE m \in {ele_pos[i][c] : i \in DOMAIN ele_pos} :
        \A i \in DOMAIN ele_pos : m <= ele_pos[i][c]

ColMax(ele_pos, c) ==
    CHOOSE m \in {ele_pos[i][c] : i \in DOMAIN ele_pos} :
        \A i \in DOMAIN ele_pos : m >= ele_pos[i][c]

\* CSD.validate: the rows of pots must match the electrodes.
validate(ele_pos, pots) ==
    IF pots.rows # Len(ele_pos) THEN "ConfigurationError" ELSE "none"

\* Float division followed by int(): the quotient truncated towards zero.
TruncDiv(a, b) ==
    LET aa == IF a < 0 THEN -a ELSE a
        bb == IF b < 0 THEN -b ELSE b
    IN  IF (a < 0) = (b < 0) THEN aa \div bb ELSE -(aa \div bb)

\* gdX, in hundredths of the coordinate unit: the parameter when it is passed,
\* else 0.01 * (xmax - xmin).
Spacing100(params, prop, lo, hi) ==
    IF prop \in DOMAIN params THEN 100 * params[prop] ELSE hi - lo

\* nx = (xmax - xmin)/gdX + 1, as np.linspace reads it (int(num)).
AxisNum(lo, hi, gd100) == TruncDiv(100 * (hi - lo), gd100) + 1

\* estimate_at.  negnum is what np.linspace does with a negative num in the
\* numpy the program runs on: "empty" (it returns an empty array) or "raise".
estimate_at(k, params, negnum) ==
    LET k1 == [k EXCEPT !.attrs = @ \cup {"R_init", "lambd"},
                        !.R_init = Get(params, "R_init", KCSD2D_params.R_init),
                        !.lambd = Get(params, "lambd", KCSD2D_params.lambd)]
        xmin == ColMin(k.ele_pos, 1)
        xmax == Get(params, "xmax", ColMax(k.ele_pos, 1))
        ymin == ColMin(k.ele_pos, 2)
        ymax == Get(params, "ymax", ColMax(k.ele_pos, 2))
        gdX == Spacing100(params, "gdX", xmin, xmax)
        gdY == Spacing100(params, "gdY", ymin, ymax)
    IN  IF gdX = 0
        THEN Raise(k1, IF xmax = xmin THEN "ValueError" ELSE "OverflowError")
        ELSE IF gdY = 0
        THEN Raise(k1, IF ymax = ymin THEN "ValueError" ELSE "OverflowError")
        ELSE LET nx == AxisNum(xmin, xmax, gdX)
                 ny == AxisNum(ymin, ymax, gdY)
             IN  IF (nx < 0 \/ ny < 0) /\ negnum = "raise"
                 THEN Raise(k1, "ValueError")
                 ELSE Ok([k1 EXCEPT
                            !.attrs = @ \cup {"space_X", "space_Y"},
                            !.space = [nx |-> IF nx < 0 THEN 0 ELSE nx,
                                       ny |-> IF ny < 0 THEN 0 ELSE ny,
                                       Lx |-> xmax - xmin,
                                       Ly |-> ymax - ymin]])

\* make_src_2D: the mesh of source centres over the estimation area, and R.
make_src_2D(space, R_init) ==
    IF space.nx = 0 \/ space.ny = 0
    THEN [exc |-> "ConfigurationError", src |-> [Lx |-> 0, Ly |-> 0], R |-> 0]
    ELSE [exc |-> "none", src |-> [Lx |-> space.Lx, Ly |-> space.Ly], R |-> R_init]

\* dist_max, kept squared (the square root is one-to-one on what it is applied to):
\* Lx = max(X_src) - min(X_src) + R, Ly likewise, dist_max = (Lx**2 + Ly**2)**0.5.
dist_max_of(src, R) == (src.Lx + R) * (src.Lx + R) + (src.Ly + R) * (src.Ly + R)

\* place_basis without the check of the source type.
place_basis_unchecked(k, source_type) ==
    LET k1 == [k EXCEPT !.attrs = @ \cup {"basis"}, !.basis = source_type]
        m == make_src_2D(k1.space, k1.R_init)
    IN  IF m.exc # "none"
        THEN Raise(k1, m.exc)
        ELSE Ok([k1 EXCEPT
                   !.attrs = @ \cup {"X_src", "Y_src", "R", "dist_max"},
                   !.src = m.src,
                   !.R = m.R,
                   !.dist_max = dist_max_of(m.src, m.R)])

place_basis(k, source_type) ==
    IF source_type \notin basis_types
    THEN Raise(k, "InvalidSourceType")
    ELSE LET k1 == [k EXCEPT !.attrs = @ \cup {"basis"}, !.basis = source_type]
             m == make_src_2D(k1.space, k1.R_init)
         IN  IF m.exc # "none"
             THEN Raise(k1, m.exc)
             ELSE Ok([k1 EXCEPT
                        !.attrs = @ \cup {"X_src", "Y_src", "R", "dist_max"},
                        !.src = m.src,
                        !.R = m.R,
                        !.dist_max = dist_max_of(m.src, m.R)])

\* create_lookup: the table of forward-model potentials for the current R,
\* dist_max and basis.
create_lookup(k) ==
    [k EXCEPT !.attrs = @ \cup {"dist_table"},
              !.dist_table = [R |-> k.R, dist_max |-> k.dist_max, basis |-> k.basis]]

\* update_b_pot that leaves an existing kernel matrix as it is.
update_b_pot_once(k) ==
    IF Has(k, "k_pot") THEN k
    ELSE LET b == [table |-> k.dist_table, dist_max |-> k.dist_max]
         IN  [k EXCEPT !.attrs = @ \cup {"b_pot", "k_pot"},
                       !.b_pot = b,
                       !.k_pot = [b_pot |-> b]]

\* update_b_pot: b_pot read from the current table at distances scaled by the
\* current dist_max; k_pot = b_pot.T . b_pot.
update_b_pot(k) ==
    LET b == [table |-> k.dist_table, dist_max |-> k.dist_max]
    IN  [k EXCEPT !.attrs = @ \cup {"b_pot", "k_pot"},
                  !.b_pot = b,
                  !.k_pot = [b_pot |-> b]]

\* update_b_src: b_src from the basis at the current R; k_interp_cross = b_src . b_pot.
update_b_src(k) ==
    LET b == [R |-> k.R, basis |-> k.basis]
    IN  [k EXCEPT !.attrs = @ \cup {"b_src", "k_interp_cross"},
                  !.b_src = b,
                  !.k_interp_cross = [b_src |-> b, b_pot |-> k.b_pot]]

\* update_b_interp_pot: defined by the class, called by none of its methods.
update_b_interp_pot(k) ==
    LET b == [table |-> k.dist_table, dist_max |-> k.dist_max]
    IN  [k EXCEPT !.attrs = @ \cup {"b_interp_pot", "k_interp_pot"},
                  !.k_interp_pot = [b_interp_pot |-> b, b_pot |-> k.b_pot]]

method(k) == update_b_src(update_b_pot(create_lookup(k)))

\* update_R without the call of method().
update_R_noRebuild(k, R) ==
    [k EXCEPT !.R = R, !.dist_max = dist_max_of(k.src, R)]

update_R(k, R) ==
    method([k EXCEPT !.R = R, !.dist_max = dist_max_of(k.src, R)])

update_lambda(k, lambd) == [k EXCEPT !.lambd = lambd]

\* __init__ up to and including validate and the first assignments.
init_validate(a) ==
    IF validate(a.ele_pos, a.pots) # "none"
    THEN Raise(NewObject, validate(a.ele_pos, a.pots))
    ELSE Ok([NewObject EXCEPT !.attrs = {"ele_pos", "pots", "n_obs"},
                              !.ele_pos = a.ele_pos,
                              !.pots = a.pots,
                              !.n_obs = Len(a.ele_pos)])

\* The whole of __init__.
KCSD2D_init(a, negnum) ==
    LET s1 == init_validate(a)
        s2 == IF s1.exc # "none" THEN s1 ELSE estimate_at(s1.k, a.params, negnum)
        s3 == IF s2.exc # "none" THEN s2 ELSE place_basis(s2.k, a.src_type)
    IN  IF s3.exc # "none" THEN s3 ELSE Ok(method(s3.k))

(***************************************************************************)
(* values: the solve with the current kernel matrices and lambda.           *)
(* inv is what the two inversions do with k_pot + lambd*I on the data at    *)
(* hand: "fast" (faster_inverse succeeds), "fallback" (it raises            *)
(* LinAlgError and np.linalg.inv succeeds) or "singular" (both fail).       *)
(* The result tells which of them it met (inv, "none" when the inversion   *)
(* was not reached) and whether np.linalg.inv was tried (retried).          *)
(***************************************************************************)
InvOutcomes == {"fast", "fallback", "singular"}

Estimates == {"CSD", "POT", "XYZ"}

NoEstimate ==
    [table |-> "none", k_interp |-> [b_src |-> NoBSrc, b_pot |-> NoBPot],
     k_pot |-> [b_pot |-> NoBPot], lambd |-> 0, shape |-> <<0, 0, 0>>]

\* values with the commented-out refresh of the potential cross matrix done on
\* every call.
values_refreshing(k, estimate, inv) ==
    [k |-> update_b_interp_pot(k), kind |-> "return", exc |-> "none",
     at |-> "end", inverted |-> TRUE, inv |-> inv, retried |-> inv # "fast",
     val |-> [table |-> estimate,
              k_interp |-> k.k_interp_cross,
              k_pot |-> k.k_pot,
              lambd |-> k.lambd,
              shape |-> <<k.space.ny, k.space.nx, k.pots.T>>]]

values(k, estimate, inv) ==
    LET bound == estimate = "CSD" \/ estimate = "POT"
        table == IF estimate = "CSD" THEN k.k_interp_cross ELSE k.k_interp_pot
        out(kind, exc, at, inverted, val) ==
            [k |-> k, kind |-> kind, exc |-> exc, at |-> at,
             inverted |-> inverted, val |-> val,
             inv |-> IF at = "mode_check" THEN "none" ELSE inv,
             retried |-> at # "mode_check" /\ inv # "fast"]
    IN  IF estimate = "CSD" /\ ~Has(k, "k_interp_cross")
        THEN out("raise", "AttributeError", "mode_check", FALSE, NoEstimate)
        ELSE IF estimate = "POT" /\ ~Has(k, "k_interp_pot")
        THEN out("raise", "AttributeError", "mode_check", FALSE, NoEstimate)
        ELSE IF inv = "singular"
        THEN out("raise", "LinAlgError", "inverse", FALSE, NoEstimate)
        ELSE IF ~bound /\ k.pots.T > 0 /\ k.n_obs > 0
        THEN out("raise", "UnboundLocalError", "estimate", TRUE, NoEstimate)
        ELSE out("return", "none", "end", TRUE,
                 [table |-> IF bound THEN estimate ELSE "none",
                  k_interp |-> IF bound THEN table ELSE NoEstimate.k_interp,
                  k_pot |-> k.k_pot,
                  lambd |-> k.lambd,
                  shape |-> <<k.space.ny, k.space.nx, k.pots.T>>])

(***************************************************************************)
(* generated_potential: the table index read for a distance.  The distance  *)
(* is given as q, the value of dt_len * dist / dist_max in quarters.  cast  *)
(* is what the conversion of a float outside 0..65535 to uint16 yields on   *)
(* the build at hand: C leaves it undefined.                                *)
(***************************************************************************)
dist_table_density == 100

UInt16 == 2 ^ 16

CastOutcomes == {"wrap", "zero", "saturate"}

\* np.round: to the nearest integer, halves to the even one.
np_round(q) ==
    LET f == q \div 4
        r == q % 4
    IN  IF r < 2 THEN f
        ELSE IF r > 2 THEN f + 1
        ELSE IF f % 2 = 0 THEN f ELSE f + 1

np_uint16(v, cast) ==
    IF v < UInt16 THEN v
    ELSE IF cast = "wrap" THEN v % UInt16
    ELSE IF cast = "zero" THEN 0
    ELSE UInt16 - 1

Min2(a, b) == IF a <= b THEN a ELSE b
Max2(a, b) == IF a >= b THEN a ELSE b

generated_potential(k, q, cast) ==
    LET dt_len == dist_table_density
        indices == np_uint16(np_round(q), cast)
        ind == Max2(0, Min2(indices, dt_len - 1))
    IN  [indices |-> indices, ind |-> ind,
         pot |-> [table |-> k.dist_table, at |-> ind]]

(***************************************************************************)
(* create_lookup.sparse_dist_table: the table indices at which the forward  *)
(* model is evaluated.  With rho = R / dist_max the borders are 90 rho and  *)
(* 130 rho for the density of 100, in general not integers: an index is     *)
(* kept as [c, o], standing for c * rho + o, and indices are compared       *)
(* exactly, through squares (dist_max is kept squared, d2).                 *)
(***************************************************************************)
Idx(c, o) == [c |-> c, o |-> o]

\* c * rho < m
RhoLess(c, m, R, d2) ==
    IF c >= 0
    THEN m > 0 /\ c * c * R * R < m * m * d2
    ELSE m > 0 \/ c * c * R * R > m * m * d2

\* c * rho = m
RhoEq(c, m, R, d2) ==
    \/ c = 0 /\ m = 0
    \/ c * m > 0 /\ c * c * R * R = m * m * d2

IdxLess(a, b, R, d2) == RhoLess(a.c - b.c, b.o - a.o, R, d2)

IdxEq(a, b, R, d2) == RhoEq(a.c - b.c, b.o - a.o, R, d2)

IdxLeq(a, b, R, d2) == IdxLess(a, b, R, d2) \/ IdxEq(a, b, R, d2)

\* np.arange(start, stop, step): start, start + step, ... below stop.  No index
\* of the table exceeds dt_len + 1, which bounds the number of steps.
np_arange(start, stop, step, dt_len, R, d2) ==
    {a \in {Idx(start.c, start.o + n * step) : n \in 0..(dt_len + 1)} :
        IdxLess(a, stop, R, d2)}

\* np.unique: the values in increasing order, each once.
np_unique(S, R, d2) ==
    LET U == {CHOOSE b \in S : IdxEq(a, b, R, d2) : a \in S}
    IN  [i \in 1..Cardinality(U) |->
            CHOOSE a \in U :
                Cardinality({b \in U : IdxLess(b, a, R, d2)}) = i - 1]

\* Lines 142-167.  sparse_step/2 is an integer division (Python 2): 4.
sparse_dist_table(R, d2, dt_len) ==
    LET dense_step == 3
        denser_step == 1
        sparse_step == 9
        tenth == dt_len \div 10
        border1 == Idx(9 * tenth, 0)
        border2 == Idx(13 * tenth, 0)
        xs1 == np_arange(Idx(0, 0), border1, dense_step, dt_len, R, d2)
        zz == np_arange(Idx(border1.c, denser_step), border2, dense_step,
                        dt_len, R, d2)
        xs5 == np_arange(Idx(border2.c, denser_step + (sparse_step \div 2)),
                         Idx(0, dt_len), sparse_step, dt_len, R, d2)
    IN  np_unique(xs1 \cup {border1} \cup zz
                      \cup {border2, Idx(border2.c, denser_step)}
                      \cup xs5 \cup {Idx(0, dt_len + 1)}, R, d2)

\* Lines 177-179: the indices the table of an engine was probed at.
probed_xs(table) == sparse_dist_table(table.R, table.dist_max, dist_table_density)

(***************************************************************************)
(* cross_validate.                                                          *)
(***************************************************************************)
\* What one leave-one-out fold computes on the data at hand: what the two
\* inversions do with B_new (as for values), and the norm of V_est - V_test.
FoldNorms == {Fin(0), Fin(1), Inf, NaN}

FoldOutcomes ==
    {[inv |-> "fast", norm |-> n] : n \in FoldNorms}
        \cup {[inv |-> i, norm |-> NaN] : i \in InvOutcomes \ {"fast"}}

\* range(n_obs) without ii.
Remove(n, ii) == SelectSeq([i \in 1..n |-> i], LAMBDA i : i # ii)

\* Lines 322-328: what the norm of V_est - V_test is taken of.  V_est has the
\* shape (1, 1) and is summed from beta_new[ii, 0], the weights of the first
\* time column; V_test has one entry per time column, and the subtraction
\* broadcasts V_est over them.  Entry t is the pair (column of the weights the
\* prediction comes from, column of the observed potential).
fold_terms(k) == [t \in 1..k.pots.T |-> [beta_col |-> 1, V_test_col |-> t]]

\* calc_error: faster_inverse(B_new) is called outside any try, so that its
\* LinAlgError leaves calc_error and np.linalg.inv is not tried.  read is what
\* the fold has read: B_train is k_pot at rows and columns idx_train (B_test is
\* the same k_pot at rows idx_test and columns idx_train).
calc_error(k, lambd, idx_test, idx_train, num) ==
    LET read == [idx_test |-> idx_test,
                 B_train |-> [k_pot |-> k.k_pot, idx |-> idx_train],
                 lambd |-> lambd,
                 terms |-> fold_terms(k)]
    IN  IF num.inv # "fast"
        THEN [exc |-> "LinAlgError", err |-> NaN, inv |-> num.inv,
              retried |-> FALSE, read |-> read]
        ELSE [exc |-> "none", err |-> num.norm, inv |-> num.inv,
              retried |-> FALSE, read |-> read]

Cells(nR, nL) == (1..nR) \X (1..nL)

\* The cells in column-major order.
ColumnMajor(nR, nL) ==
    [n \in 1..(nR * nL) |-> <<((n - 1) % nR) + 1, ((n - 1) \div nR) + 1>>]

\* The cells of an nR x nL array in row-major order.
RowMajor(nR, nL) ==
    [n \in 1..(nR * nL) |-> <<((n - 1) \div nL) + 1, ((n - 1) % nL) + 1>>]

\* np.min: NaN as soon as one entry is NaN.
np_min(errs) ==
    IF \E c \in DOMAIN errs : errs[c].cls = "nan" THEN NaN
    ELSE CHOOSE m \in {errs[c] : c \in DOMAIN errs} :
            \A c \in DOMAIN errs : FLeq(m, errs[c])

\* np.where(errs == m): the matching cells in row-major order (err_idx[0] holds
\* their rows, err_idx[1] their columns).
np_where_eq(errs, m, nR, nL) ==
    SelectSeq(RowMajor(nR, nL), LAMBDA c : FEq(errs[c], m))

\* The selection without update_R(cv_R): R stays at the last candidate scanned.
cv_select_keepsLastR(k, Rs, lambdas, errs) ==
    LET err_idx == np_where_eq(errs, np_min(errs), Len(Rs), Len(lambdas))
    IN  IF Len(err_idx) = 0
        THEN [k |-> k, exc |-> "IndexError", err_idx |-> err_idx,
              cv_R |-> 0, cv_lambda |-> 0]
        ELSE [k |-> update_lambda(k, lambdas[err_idx[1][2]]),
              exc |-> "none", err_idx |-> err_idx,
              cv_R |-> Rs[err_idx[1][1]], cv_lambda |-> lambdas[err_idx[1][2]]]

\* Lines 350-359: the selection of the winner and the update of the solver.
\* self.err_idx, which no method reads, is given with the result.
cv_select(k, Rs, lambdas, errs) ==
    LET err_idx == np_where_eq(errs, np_min(errs), Len(Rs), Len(lambdas))
    IN  IF Len(err_idx) = 0
        THEN [k |-> k, exc |-> "IndexError", err_idx |-> err_idx,
              cv_R |-> 0, cv_lambda |-> 0]
        ELSE LET cv_R == Rs[err_idx[1][1]]
                 cv_lambda == lambdas[err_idx[1][2]]
             IN  [k |-> update_lambda(update_R(k, cv_R), cv_lambda),
                  exc |-> "none", err_idx |-> err_idx,
                  cv_R |-> cv_R, cv_lambda |-> cv_lambda]

(***************************************************************************)
(* The inputs the operations are called with.                               *)
(***************************************************************************)
\* Sequences without repetition over S.
InjSeqs(S) ==
    UNION {{s \in [1..n -> S] : \A i, j \in 1..n : i # j => s[i] # s[j]} :
           n \in 1..Cardinality(S)}

\* Rs as passed to cross_validate: None, or an array of distinct radii.
RsInputs ==
    {[given |-> FALSE, v |-> << >>]}
        \cup {[given |-> TRUE, v |-> s] : s \in InjSeqs(RVals)}

\* lambdas as passed to cross_validate: an array of distinct values.
LambdasInputs == InjSeqs(LambdaVals)

\* Distances, as dt_len * dist / dist_max in quarters: around 0, around the
\* rounding ties, around dist_max, and far beyond it.
DistInputs ==
    {0, 1, 2, 3, 4, 6, 10,
     4 * (dist_table_density - 2) + 2,
     4 * (dist_table_density - 1),
     4 * (dist_table_density - 1) + 2,
     4 * dist_table_density,
     4 * dist_table_density + 4,
     4 * (UInt16 - 1),
     4 * (UInt16 - 1) + 2,
     4 * UInt16,
     4 * (UInt16 + 50),
     4 * (2 * UInt16 + dist_table_density)}

EmptyParams == [p \in {} |-> 0]

\* One optional parameter: absent, or one of vals.
Opt(prop, vals) == {EmptyParams} \cup {prop :> v : v \in vals}

ParamsInputs ==
    {gx @@ gy @@ xm :
        gx \in Opt("gdX", {-1, 0, 1}), gy \in Opt("gdY", {-1, 0, 1}),
        xm \in Opt("xmax", {-2})}

ElePosInputs == [1..NObs -> {<<0, 0>>, <<0, 2>>, <<2, 2>>}]

PotsInputs == {[rows |-> n, T |-> 1] : n \in {NObs, NObs + 1}}

SrcTypeInputs == basis_types \cup {"unknown"}

ArgsInputs ==
    [ele_pos : ElePosInputs, pots : PotsInputs,
     src_type : SrcTypeInputs, params : ParamsInputs]

\* The arguments the engine of Spec is constructed with: electrodes spread on
\* both axes, unit spacing, a supported basis, the default R_init and lambd.
GoodArgs ==
    [ele_pos |-> [i \in 1..NObs |-> IF i = 1 THEN <<0, 0>> ELSE <<2, 2>>],
     pots |-> [rows |-> NObs, T |-> 1],
     src_type |-> "gauss",
     params |-> ("gdX" :> 1) @@ ("gdY" :> 1)]

\* folds: what the folds of the cell scored last have read, in their order.
NoFrame ==
    [Rs |-> << >>, lambdas |-> << >>, errs |-> << >>,
     R_idx |-> 0, lambd_idx |-> 0, ii |-> 0, err |-> Fin(0), folds |-> << >>]

Outcome(op, arg, kind, exc, val) ==
    [op |-> op, arg |-> arg, kind |-> kind, exc |-> exc, val |-> val]

NoVal == [none |-> TRUE]

(***************************************************************************)
(* The constructor, step by step (SpecNew).                                 *)
(***************************************************************************)
InitFailed(s, at) ==
    /\ self' = s.k
    /\ pc' = "failed"
    /\ ret' = Outcome("__init__", "none", "raise", s.exc, [at |-> at])

InitValidate ==
    /\ pc = "new"
    /\ LET s == init_validate(args)
       IN  IF s.exc # "none"
           THEN InitFailed(s, "validate")
           ELSE self' = s.k /\ pc' = "estimate_at" /\ ret' = ret
    /\ UNCHANGED <<cv, args>>

InitEstimateAt ==
    /\ pc = "estimate_at"
    /\ \E negnum \in {"empty", "raise"} :
         LET s == estimate_at(self, args.params, negnum)
         IN  IF s.exc # "none"
             THEN InitFailed(s, "estimate_at")
             ELSE self' = s.k /\ pc' = "place_basis" /\ ret' = ret
    /\ UNCHANGED <<cv, args>>

InitPlaceBasis ==
    /\ pc = "place_basis"
    /\ LET s == place_basis(self, args.src_type)
       IN  IF s.exc # "none"
           THEN InitFailed(s, "place_basis")
           ELSE self' = s.k /\ pc' = "method" /\ ret' = ret
    /\ UNCHANGED <<cv, args>>

InitMethod ==
    /\ pc = "method"
    /\ self' = method(self)
    /\ pc' = "ready"
    /\ ret' = Outcome("__init__", "none", "return", "none", NoVal)
    /\ UNCHANGED <<cv, args>>

InitNew ==
    /\ args \in ArgsInputs
    /\ self = NewObject
    /\ pc = "new"
    /\ cv = NoFrame
    /\ ret = Outcome("none", "none", "none", "none", NoVal)

NextNew == InitValidate \/ InitEstimateAt \/ InitPlaceBasis \/ InitMethod

SpecNew == InitNew /\ [][NextNew]_vars

(***************************************************************************)
(* The constructed engine and its operations (Spec).                        *)
(***************************************************************************)
Init ==
    /\ args = GoodArgs
    /\ self = KCSD2D_init(args, "empty").k
    /\ pc = "ready"
    /\ cv = NoFrame
    /\ ret = Outcome("__init__", "none", "return", "none", NoVal)

UpdateR(R) ==
    /\ pc = "ready"
    /\ self' = update_R(self, R)
    /\ ret' = Outcome("update_R", R, "return", "none", NoVal)
    /\ UNCHANGED <<pc, cv, args>>

UpdateLambda(lambd) ==
    /\ pc = "ready"
    /\ self' = update_lambda(self, lambd)
    /\ ret' = Outcome("update_lambda", lambd, "return", "none", NoVal)
    /\ UNCHANGED <<pc, cv, args>>

\* again: the call follows a values('CSD') that returned, with nothing in between.
Values(estimate, inv) ==
    /\ pc = "ready"
    /\ LET v == values(self, estimate, inv)
           again == ret.op = "values" /\ ret.arg = "CSD" /\ ret.kind = "return"
       IN  /\ self' = v.k
           /\ ret' = Outcome("values", estimate, v.kind, v.exc,
                             [at |-> v.at, inverted |-> v.inverted,
                              est |-> v.val, again |-> again,
                              inv |-> v.inv, retried |-> v.retried])
    /\ UNCHANGED <<pc, cv, args>>

GeneratedPotential(q, cast) ==
    /\ pc = "ready"
    /\ np_round(q) < UInt16 => cast = "wrap"
    /\ ret' = Outcome("generated_potential", q, "return", "none",
                      generated_potential(self, q, cast))
    /\ UNCHANGED <<self, pc, cv, args>>

\* What a finished cross_validate leaves: the pair it returns, self.err_idx, the
\* candidates it was called with, and what the last inversion of a fold met.
CvVal(frame, err_idx, cv_R, cv_lambda, inv, retried) ==
    [cv_R |-> cv_R, cv_lambda |-> cv_lambda, err_idx |-> err_idx,
     Rs |-> frame.Rs, lambdas |-> frame.lambdas,
     inv |-> inv, retried |-> retried]

\* cross_validate, lines 331-335: the defaults and the zeroed error grid.
CrossValidate(lambdas, Rs) ==
    /\ pc = "ready"
    /\ LET Rs1 == IF Rs.given THEN Rs.v ELSE <<self.R>>
       IN  /\ Len(Rs1) * Len(lambdas) <= MaxCells
           /\ cv' = [Rs |-> Rs1, lambdas |-> lambdas,
                     errs |-> [c \in Cells(Len(Rs1), Len(lambdas)) |-> Fin(0)],
                     R_idx |-> 1, lambd_idx |-> 0, ii |-> 0, err |-> Fin(0),
                     folds |-> << >>]
    /\ pc' = "cv_R"
    /\ ret' = Outcome("cross_validate", "none", "running", "none", NoVal)
    /\ UNCHANGED <<self, args>>

\* Line 338: update_R for the candidate, then the first lambda and fold.
CvUpdateR ==
    /\ pc = "cv_R"
    /\ self' = update_R(self, cv.Rs[cv.R_idx])
    /\ cv' = [cv EXCEPT !.lambd_idx = 1, !.ii = 1, !.err = Fin(0)]
    /\ pc' = "cv_fold"
    /\ UNCHANGED <<ret, args>>

\* Lines 342-349: one fold; after the last fold of a lambda the cell is stored
\* and the loops advance.
CvFold(num) ==
    /\ pc = "cv_fold"
    /\ LET c == calc_error(self, cv.lambdas[cv.lambd_idx], <<cv.ii>>,
                           Remove(self.n_obs, cv.ii), num)
           err1 == FAdd(cv.err, c.err)
           f == [cell |-> <<cv.R_idx, cv.lambd_idx>>, read |-> c.read]
           folds1 == IF cv.ii = 1 THEN <<f>> ELSE Append(cv.folds, f)
           stored == [cv EXCEPT !.err = err1, !.folds = folds1,
                                !.errs[<<cv.R_idx, cv.lambd_idx>>] = err1]
       IN  IF c.exc # "none"
           THEN /\ pc' = "ready"
                /\ cv' = NoFrame
                /\ ret' = Outcome("cross_validate", "none", "raise", c.exc,
                                  CvVal(cv, << >>, 0, 0, c.inv, c.retried))
           ELSE IF cv.ii < self.n_obs
           THEN /\ pc' = pc
                /\ cv' = [cv EXCEPT !.err = err1, !.folds = folds1,
                                    !.ii = cv.ii + 1]
                /\ ret' = ret
           ELSE IF cv.lambd_idx < Len(cv.lambdas)
           THEN /\ pc' = pc
                /\ cv' = [stored EXCEPT !.lambd_idx = cv.lambd_idx + 1,
                                        !.ii = 1, !.err = Fin(0)]
                /\ ret' = ret
           ELSE IF cv.R_idx < Len(cv.Rs)
           THEN /\ pc' = "cv_R"
                /\ cv' = [stored EXCEPT !.R_idx = cv.R_idx + 1]
                /\ ret' = ret
           ELSE /\ pc' = "cv_select"
                /\ cv' = stored
                /\ ret' = ret
    /\ UNCHANGED <<self, args>>

\* Lines 350-359.
CvSelect ==
    /\ pc = "cv_select"
    /\ LET s == cv_select(self, cv.Rs, cv.lambdas, cv.errs)
       IN  /\ self' = s.k
           /\ ret' = Outcome("cross_validate", "none",
                             IF s.exc # "none" THEN "raise" ELSE "return", s.exc,
                             CvVal(cv, s.err_idx, s.cv_R, s.cv_lambda, "fast", FALSE))
    /\ pc' = "ready"
    /\ cv' = NoFrame
    /\ UNCHANGED args

Next ==
    \/ \E R \in RVals : UpdateR(R)
    \/ \E lambd \in LambdaVals : UpdateLambda(lambd)
    \/ \E estimate \in Estimates, inv \in InvOutcomes : Values(estimate, inv)
    \/ \E q \in DistInputs, cast \in CastOutcomes : GeneratedPotential(q, cast)
    \/ \E lambdas \in LambdasInputs, Rs \in RsInputs : CrossValidate(lambdas, Rs)
    \/ CvUpdateR
    \/ \E num \in FoldOutcomes : CvFold(num)
    \/ CvSelect

Spec == Init /\ [][Next]_vars

(***************************************************************************)
(* cross_validate on engines whose potentials have 1..MaxT time columns     *)
(* (SpecCv).                                                                *)
(***************************************************************************)
InitCv ==
    /\ \E T \in 1..MaxT :
            args = [GoodArgs EXCEPT !.pots = [rows |-> NObs, T |-> T]]
    /\ self = KCSD2D_init(args, "empty").k
    /\ pc = "ready"
    /\ cv = NoFrame
    /\ ret = Outcome("__init__", "none", "return", "none", NoVal)

NextCv ==
    \/ \E lambdas \in LambdasInputs, Rs \in RsInputs : CrossValidate(lambdas, Rs)
    \/ CvUpdateR
    \/ \E num \in FoldOutcomes : CvFold(num)
    \/ CvSelect

SpecCv == InitCv /\ [][NextCv]_vars

(***************************************************************************)
(* The claims.                                                              *)
(***************************************************************************)
IsCvReturn(r) == r.op = "cross_validate" /\ r.kind = "return"

IsCvEnd(r) == r.op = "cross_validate" /\ r.kind \in {"return", "raise"}

\* C1: whenever the engine is idle (after construction and after any sequence
\* of update_R, update_lambda and cross_validate), the lookup table, k_pot and
\* k_interp_cross are the ones built for the current R and dist_max.
C1_DerivedBuiltForCurrentR ==
    pc = "ready" =>
        /\ {"dist_table", "k_pot", "k_interp_cross"} \subseteq self.attrs
        /\ self.dist_table.R = self.R
        /\ self.dist_table.dist_max = self.dist_max
        /\ self.k_pot.b_pot.table = self.dist_table
        /\ self.k_pot.b_pot.dist_max = self.dist_max
        /\ self.k_interp_cross.b_src.R = self.R
        /\ self.k_interp_cross.b_pot = self.k_pot.b_pot

\* C1 witness: cross_validate has returned and left an R other than the one
\* the engine was constructed with.
C1_Witness ==
    /\ pc = "ready"
    /\ IsCvReturn(ret)
    /\ self.R # self.R_init

\* C2: when cross_validate returns (cv_R, cv_lambda), the engine's R is cv_R and
\* its lambd is cv_lambda; a values() call made next solves with k_pot built for
\* cv_R and with cv_lambda.
C2_ReturnedPairIsCurrent ==
    [][/\ IsCvReturn(ret') =>
            /\ self'.R = ret'.val.cv_R
            /\ self'.lambd = ret'.val.cv_lambda
       /\ (IsCvReturn(ret) /\ ret'.op = "values" /\ ret'.kind = "return") =>
            /\ ret'.val.est.k_pot.b_pot.table.R = ret.val.cv_R
            /\ ret'.val.est.lambd = ret.val.cv_lambda]_vars

\* C2 witness: cross_validate has returned an R that is not the last candidate
\* it scanned.
C2_Witness ==
    /\ IsCvReturn(ret)
    /\ Len(ret.val.Rs) >= 2
    /\ ret.val.cv_R # ret.val.Rs[Len(ret.val.Rs)]

\* Cell d comes before cell c in the row-major scan (R index outer).
Before(d, c) == d[1] < c[1] \/ (d[1] = c[1] /\ d[2] < c[2])

\* C3: the pair cross_validate returns is that of one cell of the grid, whose
\* accumulated error is the minimum over the grid and strictly below that of
\* every cell scanned before it in row-major order.
C3_ReturnsFirstMinimum ==
    [][(pc = "cv_select" /\ IsCvReturn(ret')) =>
        \E c \in DOMAIN cv.errs :
            /\ ret'.val.cv_R = cv.Rs[c[1]]
            /\ ret'.val.cv_lambda = cv.lambdas[c[2]]
            /\ \A d \in DOMAIN cv.errs : FLeq(cv.errs[c], cv.errs[d])
            /\ \A d \in DOMAIN cv.errs :
                 Before(d, c) => FLess(cv.errs[c], cv.errs[d])]_vars

\* C3 witness: cross_validate has returned from a grid where several cells share
\* the minimum and the first of them is not the first cell scanned.
C3_Witness ==
    /\ IsCvReturn(ret)
    /\ Len(ret.val.err_idx) >= 2
    /\ ret.val.err_idx[1] # <<1, 1>>

\* C4 (as claimed): cross_validate with one R and one lambda always returns that
\* pair.  Calls that end in a failed inversion of a fold are left aside.
C4_SingleCellAlwaysReturns ==
    (/\ IsCvEnd(ret)
     /\ Len(ret.val.Rs) = 1 /\ Len(ret.val.lambdas) = 1
     /\ ret.exc # "LinAlgError") =>
        /\ ret.kind = "return"
        /\ ret.val.cv_R = ret.val.Rs[1]
        /\ ret.val.cv_lambda = ret.val.lambdas[1]

\* C5 (as claimed): values with a mode other than 'CSD' and 'POT' raises at the
\* mode check, before any inversion.
C5_InvalidModeRaisesAtCheck ==
    (ret.op = "values" /\ ret.arg \notin {"CSD", "POT"}) =>
        /\ ret.kind = "raise"
        /\ ret.val.at = "mode_check"
        /\ ~ret.val.inverted

\* C6 (as claimed): values('POT') returns an estimate as values('CSD') does (both
\* inversions failing aside), from the potential cross matrix built for the
\* current R.
C6_PotEstimateAvailable ==
    (ret.op = "values" /\ ret.arg = "POT" /\ ret.exc # "LinAlgError") =>
        /\ ret.kind = "return"
        /\ ret.val.est.k_interp.b_pot = self.k_pot.b_pot

\* C7: a values('CSD') call changes nothing of the engine, and when it follows
\* a values('CSD') call that returned, with nothing in between, it returns the
\* same estimate.
C7_ValuesCSDChangesNothing ==
    [][(ret'.op = "values" /\ ret'.arg = "CSD") =>
        /\ self' = self
        /\ (ret'.val.again /\ ret'.kind = "return") =>
              ret'.val.est = ret.val.est]_vars

\* C7 witness: values('CSD') has returned twice in a row.
C7_Witness ==
    /\ ret.op = "values" /\ ret.arg = "CSD" /\ ret.kind = "return"
    /\ ret.val.again

\* C8 (as claimed): the lookup reads the table at round(density * d / dist_max)
\* clamped to [0, density - 1], for every distance.
C8_LookupClamped ==
    ret.op = "generated_potential" =>
        ret.val.ind = Max2(0, Min2(np_round(ret.arg), dist_table_density - 1))

(***************************************************************************)
(* The constructor's claims (SpecNew).                                      *)
(***************************************************************************)
\* C9 (as claimed): when construction fails on an unsupported basis type, no
\* grid (and no table or kernel matrix) has been built.
C9_NoGridAtFailure ==
    (pc = "failed" /\ ret.val.at = "place_basis"
        /\ args.src_type \notin basis_types) =>
        self.attrs \cap {"space_X", "space_Y", "X_src", "Y_src",
                         "dist_table", "k_pot", "k_interp_cross"} = {}

\* C9 (amended): construction with an unsupported basis type never completes;
\* when its arguments pass validate and estimate_at it fails in place_basis with
\* the invalid-source-type exception, the estimation grid already built, the
\* source grid, the lookup table and the kernel matrices not built.
C9_FailsAfterEstimationGrid ==
    args.src_type \notin basis_types =>
        /\ pc \notin {"method", "ready"}
        /\ (pc = "failed" /\ ret.val.at = "place_basis") =>
              /\ ret.exc = "InvalidSourceType"
              /\ {"space_X", "space_Y"} \subseteq self.attrs
              /\ self.attrs \cap {"X_src", "Y_src", "R", "dist_max", "dist_table",
                                  "b_pot", "k_pot", "b_src", "k_interp_cross"} = {}

\* C9 witness: construction has failed in place_basis on an unsupported type,
\* with a non-empty estimation grid built.
C9_Witness ==
    /\ pc = "failed" /\ ret.val.at = "place_basis"
    /\ args.src_type \notin basis_types
    /\ self.space.nx > 0 /\ self.space.ny > 0

\* The spacing and the number of points estimate_at arrives at on an axis.
AxisLo(a, c) == ColMin(a.ele_pos, c)
AxisHi(a, c, hiProp) == Get(a.params, hiProp, ColMax(a.ele_pos, c))

BadAxis(a, c, gdProp, hiProp) ==
    LET gd == Spacing100(a.params, gdProp, AxisLo(a, c), AxisHi(a, c, hiProp))
    IN  \/ gd <= 0
        \/ AxisNum(AxisLo(a, c), AxisHi(a, c, hiProp), gd) <= 0

\* C10 (as claimed): when the spacing on an axis is non-positive or the grid
\* would have no point on an axis, construction fails in estimate_at and no
\* estimation grid is built.
C10_BadSpacingRejected ==
    (/\ validate(args.ele_pos, args.pots) = "none"
     /\ BadAxis(args, 1, "gdX", "xmax") \/ BadAxis(args, 2, "gdY", "ymax")
     /\ pc \notin {"new", "estimate_at"}) =>
        /\ pc = "failed"
        /\ ret.val.at = "estimate_at"
        /\ ~Has(self, "space_X") /\ ~Has(self, "space_Y")

\* C11 (as claimed): wherever the engine inverts the regularised kernel matrix
\* (values, and the folds of cross_validate), a failure of the fast inversion is
\* followed by a try of the standard inversion, and when that one succeeds the
\* operation completes: no LinAlgError reaches the caller.
C11_FastFailureRetried ==
    (/\ ret.op \in {"values", "cross_validate"}
     /\ ret.kind \in {"return", "raise"}
     /\ ret.val.inv \in {"fallback", "singular"}) =>
        /\ ret.val.retried
        /\ ret.val.inv = "fallback" => ret.exc # "LinAlgError"

\* The folds of a cell are all done: the cell's error has been stored.
CellScored ==
    /\ pc \in {"cv_fold", "cv_R", "cv_select"}
    /\ Len(cv.folds) = self.n_obs

\* C12 (as claimed): the error stored for a pair (R, lambda) comes from one
\* fold per electrode i, in which i is held out, the training set is every other
\* electrode, the kernel matrix is the one built for that R, the regularisation
\* is that lambda, and the prediction compared with the observed potential of
\* time column t comes from the weights trained on column t, for every column.
C12_EveryColumnOwnPrediction ==
    CellScored =>
        \A i \in 1..self.n_obs :
            LET f == cv.folds[i]
            IN  /\ f.read.idx_test = <<i>>
                /\ f.read.B_train.idx = Remove(self.n_obs, i)
                /\ f.read.B_train.k_pot.b_pot.table.R = cv.Rs[f.cell[1]]
                /\ f.read.lambd = cv.lambdas[f.cell[2]]
                /\ DOMAIN f.read.terms = 1..self.pots.T
                /\ \A t \in 1..self.pots.T :
                        f.read.terms[t] = [beta_col |-> t, V_test_col |-> t]

\* The indices the claim lists for borders b1 = 90 rho and b2 = 130 rho: every
\* 3 units from 0 up to b1, every unit from b1 to b2, every 9 units from b2 up
\* to the density, and b1, b2, 0 and the density themselves.
C13_ClaimedIndices(R, d2) ==
    LET dt_len == dist_table_density
        b1 == Idx(90, 0)
        b2 == Idx(130, 0)
        top == Idx(0, dt_len)
    IN  {a \in {Idx(0, 3 * n) : n \in 0..dt_len} : IdxLeq(a, b1, R, d2)}
        \cup {a \in {Idx(90, n) : n \in 0..dt_len} : IdxLeq(a, b2, R, d2)}
        \cup {a \in {Idx(130, 9 * n) : n \in 0..dt_len} : IdxLeq(a, top, R, d2)}
        \cup {b1, b2, Idx(0, 0), top}

\* C13 (as claimed): the indices create_lookup evaluates the forward model at
\* are the listed ones and no others, they are strictly increasing, and each
\* of them lies in [0, density].
C13_SampledIndicesAsListed ==
    (pc = "ready" /\ Has(self, "dist_table")) =>
        LET R == self.dist_table.R
            d2 == self.dist_table.dist_max
            xs == probed_xs(self.dist_table)
            claimed == C13_ClaimedIndices(R, d2)
        IN  /\ \A a \in claimed : \E i \in DOMAIN xs : IdxEq(xs[i], a, R, d2)
            /\ \A i \in DOMAIN xs : \E a \in claimed : IdxEq(xs[i], a, R, d2)
            /\ \A i \in DOMAIN xs :
                    i > 1 => IdxLess(xs[i - 1], xs[i], R, d2)
            /\ \A i \in DOMAIN xs :
                    /\ IdxLeq(Idx(0, 0), xs[i], R, d2)
                    /\ IdxLeq(xs[i], Idx(0, dist_table_density), R, d2)

\* The step belongs to a cross_validate call.
InCv == pc \in {"cv_R", "cv_fold", "cv_select"} \/ pc' \in {"cv_R", "cv_fold", "cv_select"}

\* C14: in cross_validate every fold of a candidate R reads the kernel matrix
\* that was rebuilt for that R, and nothing is rebuilt between the folds of a
\* candidate; lambd is not changed while the candidates are scored; ele_pos,
\* pots, the estimation grid and the source centres are changed neither by
\* cross_validate nor by update_R.
C14_FoldsReadCandidateKernel ==
    [][/\ (pc = "cv_fold" /\ pc' # "ready") =>
            LET f == cv'.folds[Len(cv'.folds)]
                R == cv.Rs[cv.R_idx]
                built == [R |-> R, dist_max |-> dist_max_of(self.src, R),
                          basis |-> self.basis]
            IN  /\ f.cell = <<cv.R_idx, cv.lambd_idx>>
                /\ f.read.B_train.k_pot.b_pot.table = built
                /\ f.read.B_train.k_pot.b_pot.dist_max = built.dist_max
                /\ self'.k_pot = self.k_pot /\ self'.R = self.R
       /\ pc \in {"cv_R", "cv_fold"} => self'.lambd = self.lambd
       /\ (InCv \/ ret'.op = "update_R") =>
            /\ self'.ele_pos = self.ele_pos
            /\ self'.pots = self.pots
            /\ self'.n_obs = self.n_obs
            /\ self'.space = self.space
            /\ self'.src = self.src]_vars

\* C14 witness: the sweep is in the folds of its second candidate R, one of
\* them done, under a candidate lambda other than the engine's lambd.
C14_Witness ==
    /\ pc = "cv_fold"
    /\ cv.R_idx = 2
    /\ cv.ii > 1
    /\ cv.folds[1].cell = <<2, cv.lambd_idx>>
    /\ cv.folds[1].read.B_train.k_pot.b_pot.table.R = cv.Rs[2]
    /\ cv.Rs[2] # cv.Rs[1]
    /\ cv.lambdas[cv.lambd_idx] # self.lambd

====
